---- MODULE Spec2Model ----
(***************************************************************************)
(* Per-message metrics delta engine of agentcli/core/trace_utils.py.       *)
(*                                                                         *)
(* The module-level dictionaries _agent_snapshots and _session_totals are  *)
(* the engine state.  The three public operations are                      *)
(* extract_strands_trace_data, extract_direct_metrics_from_response and    *)
(* reset_metrics_state.  A Python dict is a function whose DOMAIN is its   *)
(* key set; d.get(k, v) is Get(d, k, v); d[k] on a missing key raises.     *)
(* A function that may raise returns a record with a field "raised".       *)
(***************************************************************************)
EXTENDS Integers, Sequences, FiniteSets, TLC

\* ------------------------------------------------------------------ bounds
\* Calls made to the engine in one behaviour.
MaxCalls == 3
\* Calls made in one behaviour of the specification with faulty turn results.
MaxFaultCalls == 2
\* Largest token level of a cumulative summary (2 input + 1 output tokens each).
MaxTok == 1
\* Largest cumulative cycle count of a summary.
MaxCyc == 1

\* ------------------------------------------------------------- python values
Agents == {"a1", "a2"}
None == "None"

NoSnapshot == [kind |-> "None"]
NoTrace == [kind |-> "None"]
Raised == [kind |-> "raise"]
EmptyDict == [k \in {} |-> 0]

Get(d, k, default) == IF k \in DOMAIN d THEN d[k] ELSE default

Put(d, k, v) == [x \in (DOMAIN d) \cup {k} |-> IF x = k THEN v ELSE d[x]]

\* The difference without the clamp.
Max0NoClamp(x) == x

Max0(x) == IF x > 0 THEN x ELSE 0

Min(a, b) == IF a < b THEN a ELSE b

\* seq[lo:hi] of Python for 0 <= lo, 0 <= hi: indices past the end are clamped.
Slice(seq, lo, hi) ==
    LET top == Min(hi, Len(seq))
    IN  IF lo >= top THEN <<>> ELSE SubSeq(seq, lo + 1, top)

\* ------------------------------------------------------------- turn results
UsageKeys == {"inputTokens", "outputTokens", "totalTokens"}

TraceNode(i) == [id |-> i, iterable |-> TRUE, children |-> <<>>]

\* A trace node whose 'children' entry is None: iterating it raises TypeError.
BadTraceNode(i) == [id |-> i, iterable |-> FALSE, children |-> <<>>]

Traces(n) == [i \in 1..n |-> TraceNode(i)]

\* What agent_response.metrics.get_summary() returns for a runtime that has
\* spent t token units in c cycles; traces are index-aligned with the cycles.
Summary(t, c) ==
    [accumulated_usage |-> [inputTokens |-> 2 * t, outputTokens |-> t,
                            totalTokens |-> 3 * t],
     total_cycles |-> c,
     accumulated_metrics |-> [latencyMs |-> t + c],
     traces |-> Traces(c)]

\* A turn result: metrics is "present", "absent" (no metrics attribute) or
\* "raises" (get_summary() raises).
Response(t, c) == [metrics |-> "present", summary |-> Summary(t, c)]

TurnResults == {Response(t, c) : t \in 0..MaxTok, c \in 0..MaxCyc}

\* Turn results that are not instrumented, whose summary cannot be read, or whose
\* summary departs from the CumulativeSummary shape.
FaultyTurnResults ==
    {[metrics |-> "absent", summary |-> Summary(1, 1)],
     [metrics |-> "raises", summary |-> Summary(1, 1)],
     [metrics |-> "present",
      summary |-> [Summary(1, 1) EXCEPT !.accumulated_usage = EmptyDict]],
     [metrics |-> "present",
      summary |-> [Summary(1, 1) EXCEPT
                       !.accumulated_usage = [inputTokens |-> 2, outputTokens |-> 1]]],
     [metrics |-> "present",
      summary |-> [Summary(1, 1) EXCEPT !.accumulated_metrics = EmptyDict]],
     [metrics |-> "present",
      summary |-> [Summary(1, 1) EXCEPT !.traces = <<BadTraceNode(1)>>]],
     [metrics |-> "present", summary |-> [Summary(1, 2) EXCEPT !.traces = Traces(1)]],
     [metrics |-> "present", summary |-> [Summary(1, 1) EXCEPT !.traces = Traces(2)]]}

AllTurnResults == TurnResults \cup FaultyTurnResults

\* ----------------------------------------------------------- trace children
\* A child of a cycle node: name, message role, message content (a sequence of
\* content blocks) and metadata toolUseId.  A content block is a dict with one
\* of the keys 'text', 'toolUse', 'toolResult'; the field "key" says which.
TextBlock(text) == [key |-> "text", text |-> text]

ToolUseBlock(tool_id) == [key |-> "toolUse", toolUseId |-> tool_id, name |-> "calculator"]

ToolResultBlock(content) == [key |-> "toolResult", content |-> content]

\* The assistant step of a cycle: a text and the request of tool call t1.
AssistantStep ==
    [name |-> "stream_messages", role |-> "assistant", toolUseId |-> None,
     content |-> <<TextBlock("calling"), ToolUseBlock("t1")>>]

\* An assistant step with a text only.
AnswerStep ==
    [name |-> "stream_messages", role |-> "assistant", toolUseId |-> None,
     content |-> <<TextBlock("answer")>>]

UserStep ==
    [name |-> "stream_messages", role |-> "user", toolUseId |-> None,
     content |-> <<TextBlock("question")>>]

\* A tool invocation child carrying one toolResult with one text.
ToolChild(tool_id, text) ==
    [name |-> "Tool: calculator", role |-> "user", toolUseId |-> tool_id,
     content |-> <<ToolResultBlock(<<TextBlock(text)>>)>>]

\* A tool invocation child whose message has no content.
EmptyToolChild(tool_id) ==
    [name |-> "Tool: calculator", role |-> "user", toolUseId |-> tool_id,
     content |-> <<>>]

\* A child with the metadata of a tool call but no 'Tool:' in its name.
UnmarkedChild(tool_id, text) ==
    [name |-> "event_loop_cycle", role |-> "user", toolUseId |-> tool_id,
     content |-> <<ToolResultBlock(<<TextBlock(text)>>)>>]

\* A tool invocation child whose toolResult has two texts.
TwoTextToolChild(tool_id, first, second) ==
    [name |-> "Tool: calculator", role |-> "user", toolUseId |-> tool_id,
     content |-> <<ToolResultBlock(<<TextBlock(first), TextBlock(second)>>)>>]

\* A child with the assistant role that is not a message-streaming step.
OtherAssistantChild ==
    [name |-> "event_loop_cycle", role |-> "assistant", toolUseId |-> None,
     content |-> <<TextBlock("thinking")>>]

ChildKinds ==
    {AssistantStep, UserStep, ToolChild("t1", "r1"), ToolChild("t1", "r2"),
     ToolChild("t2", "r3"), EmptyToolChild("t1"), UnmarkedChild("t1", "r4"),
     TwoTextToolChild("t1", "r5", "r6"), OtherAssistantChild, AnswerStep}

\* Most children of a cycle node.
MaxChildren == 3

ChildSeqs == UNION {[1..n -> ChildKinds] : n \in 0..MaxChildren}

CycleNode(children) == [id |-> 1, iterable |-> TRUE, children |-> children]

\* The child sequences of the nodes of a turn of two cycles: one child at most.
ShortChildSeqs == {children \in ChildSeqs : Len(children) <= 1}

\* Turn results of one cycle whose node has any of the child sequences, and of
\* two cycles whose nodes have any of the short ones.
ContentTurnResults ==
    {[metrics |-> "present",
      summary |-> [Summary(1, 1) EXCEPT !.traces = <<CycleNode(children)>>]] :
         children \in ChildSeqs}
    \cup
    {[metrics |-> "present",
      summary |-> [Summary(1, 2) EXCEPT
                       !.traces = <<CycleNode(pair[1]),
                                    [CycleNode(pair[2]) EXCEPT !.id = 2]>>]] :
         pair \in ShortChildSeqs \X ShortChildSeqs}

\* 'Tool:' in name, over the names that occur.
ToolNames == {"Tool: calculator"}

RECURSIVE Concat(_)
Concat(seqs) == IF seqs = <<>> THEN <<>> ELSE Head(seqs) \o Concat(Tail(seqs))

SetMin(S) == CHOOSE x \in S : \A y \in S : x <= y

\* ------------------------------------------------------------ engine state
VARIABLES
    snapshots,      \* _agent_snapshots: id(agent) -> last cumulative counters
    totals,         \* _session_totals: running totals of the UI session
    call,           \* the last call made: operation, agent argument, turn result
    prev_snapshot,  \* local prev_snapshot of the last delta computation
    result,         \* what the last call returned (or that it raised)
    calls,          \* number of calls made so far
    returnedSum,    \* history: sum of the deltas of the records returned since the last reset
    returnedCycles, \* history: the cycles of those records, one after the other
    computedSum,    \* history: sum of the deltas computed since the last reset
    everReset,      \* history: reset_metrics_state has been called
    forgotten,      \* history: identities whose snapshot a reset removed, not observed since
    resetRun,       \* history: number of consecutive resets ending at the last call
    instance,       \* for each id() value, which agent object lives there (by creation order)
    observedInstances, \* history: the <<id, agent object>> pairs observed so far
    threads,        \* the observations in flight in separate threads, with their locals
    agent_model     \* agent.model: the model object bound to the agents

vars == <<snapshots, totals, call, prev_snapshot, result, calls, returnedSum,
         returnedCycles,
          computedSum, everReset, forgotten, resetRun, instance, observedInstances,
          threads, agent_model>>

TotalKeys == <<"inputTokens", "outputTokens", "totalTokens", "cycles", "latencyMs">>

ZeroTotals ==
    [inputTokens |-> 0, outputTokens |-> 0, totalTokens |-> 0, cycles |-> 0,
     latencyMs |-> 0]

\* ------------------------------------------------- calculate_per_message_metrics
\* max(0, current - previous) of one cumulative counter.
CounterDelta(current, previous) == Max0(current - previous)

\* prev_snapshot = _agent_snapshots.get(key, None), None when no agent is given.
LookupSnapshot(snaps, agent_obj) ==
    IF agent_obj # None /\ agent_obj \in DOMAIN snaps THEN snaps[agent_obj]
    ELSE NoSnapshot

\* delta_usage: the raw usage dict on the ephemeral and first-call paths.
DeltaUsage(curr_usage, prev) ==
    IF prev = NoSnapshot THEN curr_usage
    ELSE [inputTokens |->
              CounterDelta(Get(curr_usage, "inputTokens", 0), prev.inputTokens),
          outputTokens |->
              CounterDelta(Get(curr_usage, "outputTokens", 0), prev.outputTokens),
          totalTokens |->
              CounterDelta(Get(curr_usage, "totalTokens", 0), prev.totalTokens)]

DeltaCycles(curr_cycles, prev) ==
    IF prev = NoSnapshot THEN curr_cycles ELSE CounterDelta(curr_cycles, prev.cycles)

DeltaLatency(curr_latency, prev) ==
    IF prev = NoSnapshot THEN curr_latency
    ELSE CounterDelta(curr_latency, prev.latencyMs)

\* The snapshot written back for the agent.
SnapshotOf(current_summary) ==
    [inputTokens |-> Get(current_summary.accumulated_usage, "inputTokens", 0),
     outputTokens |-> Get(current_summary.accumulated_usage, "outputTokens", 0),
     totalTokens |-> Get(current_summary.accumulated_usage, "totalTokens", 0),
     cycles |-> current_summary.total_cycles,
     latencyMs |-> Get(current_summary.accumulated_metrics, "latencyMs", 0)]

SaveSnapshotUnguarded(snaps, agent_obj, current_summary) ==
    Put(snaps, agent_obj, SnapshotOf(current_summary))

\* The store is rebound to a new dict that holds this entry only.
SaveSnapshotReplaceStore(snaps, agent_obj, current_summary) ==
    IF agent_obj # None
    THEN [key \in {agent_obj} |-> SnapshotOf(current_summary)]
    ELSE snaps

\* setdefault in place of the assignment: a stored snapshot is never replaced.
SaveSnapshotIfAbsent(snaps, agent_obj, current_summary) ==
    IF agent_obj # None /\ agent_obj \notin DOMAIN snaps
    THEN Put(snaps, agent_obj, SnapshotOf(current_summary))
    ELSE snaps

SaveSnapshot(snaps, agent_obj, current_summary) ==
    IF agent_obj # None THEN Put(snaps, agent_obj, SnapshotOf(current_summary))
    ELSE snaps

\* The five statements _session_totals[k] += v, in order; a missing key
\* raises KeyError and leaves the earlier additions in place.
RECURSIVE AccumulateFrom(_, _, _)
AccumulateFrom(tots, amounts, i) ==
    IF i > Len(TotalKeys) THEN [raised |-> FALSE, totals |-> tots]
    ELSE IF TotalKeys[i] \notin DOMAIN tots THEN [raised |-> TRUE, totals |-> tots]
    ELSE AccumulateFrom([tots EXCEPT ![TotalKeys[i]] = @ + amounts[i]], amounts, i + 1)

Accumulate(tots, delta_usage, delta_cycles, delta_latency) ==
    AccumulateFrom(tots,
                   <<Get(delta_usage, "inputTokens", 0),
                     Get(delta_usage, "outputTokens", 0),
                     Get(delta_usage, "totalTokens", 0), delta_cycles, delta_latency>>,
                   1)

\* all_traces[prev_cycles_index:curr_cycles] if prev_cycles_index < len(all_traces) else []
NewTraces(all_traces, prev_cycles_index, curr_cycles) ==
    IF prev_cycles_index < Len(all_traces)
    THEN Slice(all_traces, prev_cycles_index, curr_cycles)
    ELSE <<>>

\* A slice that always starts at the first trace.
PrevCyclesIndexZero(prev) == 0

PrevCyclesIndex(prev) == IF prev = NoSnapshot THEN 0 ELSE prev.cycles

\* for child in trace.get('children', []) raises on a node that cannot be iterated.
WalkRaises(new_traces) == \E i \in 1..Len(new_traces) : ~new_traces[i].iterable

\* ---- message content and tool calls (lines 118-156 and 373-411)
\* A test of the name alone.
IsStreamMessage(child) == child.name = "stream_messages"

\* child.get('name') == 'stream_messages' and message role == 'assistant'
IsAssistant(child) == child.name = "stream_messages" /\ child.role = "assistant"

\* 'Tool:' in other_child name and other_child metadata toolUseId == tool_id
IsToolChildFor(other_child, tool_id) ==
    other_child.name \in ToolNames /\ other_child.toolUseId = tool_id

\* item['text'] of every item that has the key 'text', in order.
TextsOf(content) ==
    Concat([i \in 1..Len(content) |->
               IF content[i].key = "text" THEN <<content[i].text>> ELSE <<>>])

\* The texts inside every toolResult item of a message content, in order.
ResultTexts(content) ==
    Concat([i \in 1..Len(content) |->
               IF content[i].key = "toolResult" THEN TextsOf(content[i].content)
               ELSE <<>>])

\* tool_result = content_item['text'] runs for every text found: the last
\* assignment stays; tool_result keeps "" when there is none.
ToolResultOf(other_child) ==
    LET texts == ResultTexts(other_child.content)
    IN  IF texts = <<>> THEN "" ELSE texts[Len(texts)]

MatchingChildren(children, tool_id) ==
    {i \in 1..Len(children) : IsToolChildFor(children[i], tool_id)}

\* A scan that starts at the second child.
StrandsToolResultSkipFirst(children, tool_id) ==
    LET later == MatchingChildren(children, tool_id) \ {1}
    IN  IF later = {} THEN "" ELSE ToolResultOf(children[SetMin(later)])

\* Lines 139-149: the scan of the siblings breaks at the first other_child
\* that matches, whether its message has content or not.
StrandsToolResult(children, tool_id) ==
    LET matching == MatchingChildren(children, tool_id)
    IN  IF matching = {} THEN "" ELSE ToolResultOf(children[SetMin(matching)])

\* Lines 394-404: the break is inside "if other_child message content", so the
\* scan goes on past a matching other_child whose message has no content.
DirectToolResult(children, tool_id) ==
    LET matching == {i \in MatchingChildren(children, tool_id) :
                        children[i].content # <<>>}
    IN  IF matching = {} THEN "" ELSE ToolResultOf(children[SetMin(matching)])

\* An append that is skipped when no result was found.
ToolCallOfMatchedOnly(tool_use, tool_result) ==
    IF tool_result = "" THEN <<>>
    ELSE <<[id |-> tool_use.toolUseId, name |-> tool_use.name, result |-> tool_result]>>

\* tool_calls.append({'id': tool_id, 'name': tool_name, ..., 'result': tool_result})
ToolCallOf(tool_use, tool_result) ==
    <<[id |-> tool_use.toolUseId, name |-> tool_use.name, result |-> tool_result]>>

\* The tool calls of the toolUse items of one assistant child; direct says
\* which of the two copies of the sibling scan runs.
ToolCallsOfChild(child, children, direct) ==
    Concat([i \in 1..Len(child.content) |->
               IF child.content[i].key = "toolUse"
               THEN ToolCallOf(child.content[i],
                               IF direct
                               THEN DirectToolResult(children, child.content[i].toolUseId)
                               ELSE StrandsToolResult(children, child.content[i].toolUseId))
               ELSE <<>>])

\* tool_calls of the new traces, in trace, child and item order.
ToolCalls(new_traces, direct) ==
    Concat([t \in 1..Len(new_traces) |->
               Concat([c \in 1..Len(new_traces[t].children) |->
                          IF IsAssistant(new_traces[t].children[c])
                          THEN ToolCallsOfChild(new_traces[t].children[c],
                                                new_traces[t].children, direct)
                          ELSE <<>>])])

\* message_contents: the texts of the assistant children of the new traces.
MessageContents(new_traces) ==
    Concat([t \in 1..Len(new_traces) |->
               Concat([c \in 1..Len(new_traces[t].children) |->
                          IF IsAssistant(new_traces[t].children[c])
                          THEN TextsOf(new_traces[t].children[c].content)
                          ELSE <<>>])])

calculate_per_message_metrics(current_summary, agent_obj, snaps, tots) ==
    LET curr_usage == current_summary.accumulated_usage
        curr_cycles == current_summary.total_cycles
        curr_latency == Get(current_summary.accumulated_metrics, "latencyMs", 0)
        prev == LookupSnapshot(snaps, agent_obj)
        delta_usage == DeltaUsage(curr_usage, prev)
        delta_cycles == DeltaCycles(curr_cycles, prev)
        delta_latency == DeltaLatency(curr_latency, prev)
        acc == Accumulate(tots, delta_usage, delta_cycles, delta_latency)
        new_traces == NewTraces(current_summary.traces, PrevCyclesIndex(prev), curr_cycles)
    IN  [raised |-> acc.raised \/ WalkRaises(new_traces),
         snapshots |-> SaveSnapshot(snaps, agent_obj, current_summary),
         totals |-> acc.totals,
         prev_snapshot |-> prev,
         data |-> [token_delta |-> delta_usage, new_cycles |-> delta_cycles,
                   latency_ms |-> delta_latency, new_traces |-> new_traces,
                   message_contents |-> MessageContents(new_traces),
                   tool_calls |-> ToolCalls(new_traces, FALSE)]]

\* --------------------------------------------------------- convert_to_ui_format
\* ---- display model name (lines 180-215)
\* actual_model when there is no agent or the agent has no model.
DefaultModel == "us.anthropic.claude-3-7-sonnet-20250219-v1:0"

\* The attributes probed with hasattr, in the order of the if/elif chain.
ProbeFields == <<"model_id", "model", "model_name", "_model_id">>

\* str() of what each attribute holds.
FieldValue(field) ==
    CASE field = "model_id" -> "value of model_id"
      [] field = "model" -> "value of model"
      [] field = "model_name" -> "value of model_name"
      [] field = "_model_id" -> "value of _model_id"

\* The class names of model objects; 'Bedrock', 'Anthropic', 'OpenAI' in
\* class_name, over the names that occur.
ClassNames ==
    {"BedrockModel", "CustomBedrockLLM", "AnthropicModel", "OpenAIModel", "OllamaModel"}

BedrockNames == {"BedrockModel", "CustomBedrockLLM"}

AnthropicNames == {"AnthropicModel"}

OpenAINames == {"OpenAIModel"}

\* agent.model is missing, None or otherwise falsy.
NoModel == [kind |-> "None", fields |-> {}, class_name |-> "NoneType", str_raises |-> FALSE]

\* A model object: the probed attributes it has, its class name, and whether
\* str() of an attribute of it raises.
ModelObject(fields, class_name, str_raises) ==
    [kind |-> "model", fields |-> fields, class_name |-> class_name,
     str_raises |-> str_raises]

ModelObjects ==
    {ModelObject(fields, class_name, str_raises) :
        fields \in SUBSET {ProbeFields[i] : i \in 1..Len(ProbeFields)},
        class_name \in ClassNames, str_raises \in BOOLEAN}

\* The model object of the agent the server loads.
LoadedModel == ModelObject({"model_id"}, "BedrockModel", FALSE)

\* The attribute the chain would take if it ran from its last branch up.
FirstProbeReversed(fields) ==
    ProbeFields[CHOOSE i \in 1..Len(ProbeFields) :
                    /\ ProbeFields[i] \in fields
                    /\ \A j \in 1..Len(ProbeFields) : ProbeFields[j] \in fields => j <= i]

\* The first attribute of the if/elif chain that the model object has.
FirstProbe(fields) ==
    ProbeFields[CHOOSE i \in 1..Len(ProbeFields) :
                    /\ ProbeFields[i] \in fields
                    /\ \A j \in 1..Len(ProbeFields) : ProbeFields[j] \in fields => i <= j]

\* Lines 201-210: the name taken from the class name.
ClassModelName(class_name) ==
    IF class_name \in BedrockNames THEN "BedrockModel"
    ELSE IF class_name \in AnthropicNames THEN "AnthropicModel"
    ELSE IF class_name \in OpenAINames THEN "OpenAIModel"
    ELSE class_name

\* agent.model of the agent passed, NoModel when no agent is passed.
ModelOf(agent) == IF agent = None THEN NoModel ELSE agent_model

\* actual_model: the fallback unless the agent has a model; then str() of the
\* first attribute found ("Unknown Model" when that raises), else the name
\* taken from the class name.
ActualModel(model_obj) ==
    IF model_obj.kind = "None" THEN DefaultModel
    ELSE IF model_obj.fields # {}
    THEN IF model_obj.str_raises THEN "Unknown Model"
         ELSE FieldValue(FirstProbe(model_obj.fields))
    ELSE ClassModelName(model_obj.class_name)

\* A call that carries the whole token delta.
LlmCallUndivided(per_message_data) ==
    [prompt_tokens |-> per_message_data.token_delta.inputTokens,
     completion_tokens |-> per_message_data.token_delta.outputTokens,
     total_tokens |-> per_message_data.token_delta.totalTokens]

LlmCall(per_message_data) ==
    LET n == IF per_message_data.new_cycles > 1 THEN per_message_data.new_cycles ELSE 1
    IN  [prompt_tokens |-> per_message_data.token_delta.inputTokens \div n,
         completion_tokens |-> per_message_data.token_delta.outputTokens \div n,
         total_tokens |-> per_message_data.token_delta.totalTokens \div n]

\* The record handed to the UI: total_tokens (token_delta), debug_info.new_cycles,
\* total_duration_ms (latency_ms), one cycle and one llm_call per new trace, the
\* texts that response_text joins (message_contents) and one tool call per
\* entry of per_message_data['tool_calls'].
\* token_delta[k] on a missing key raises KeyError.
convert_to_ui_format(per_message_data, agent) ==
    IF UsageKeys \subseteq DOMAIN per_message_data.token_delta
       /\ ~WalkRaises(per_message_data.new_traces)
    THEN [raised |-> FALSE,
          value |-> [kind |-> "record",
                     model |-> ActualModel(ModelOf(agent)),
                     token_delta |-> [k \in UsageKeys |-> per_message_data.token_delta[k]],
                     new_cycles |-> per_message_data.new_cycles,
                     latency_ms |-> per_message_data.latency_ms,
                     cycles |-> [i \in 1..Len(per_message_data.new_traces) |->
                                    per_message_data.new_traces[i].id],
                     llm_calls |-> [i \in 1..Len(per_message_data.new_traces) |->
                                       LlmCall(per_message_data)],
                     message_contents |-> per_message_data.message_contents,
                     tool_calls |-> [i \in 1..Len(per_message_data.tool_calls) |->
                                        [tool_id |-> per_message_data.tool_calls[i].id,
                                         tool_name |-> per_message_data.tool_calls[i].name,
                                         result |-> per_message_data.tool_calls[i].result]]]]
    ELSE [raised |-> TRUE, value |-> NoTrace]

\* A handler that lets the exception through.
ExceptReraise(outcome) == IF outcome.raised THEN Raised ELSE outcome.value

\* except Exception: return None
Except(outcome) == IF outcome.raised THEN NoTrace ELSE outcome.value

\* ---------------------------------------------------- extract_strands_trace_data
\* A test that takes every turn result as instrumented.
HasMetricsAlways(agent_response) == TRUE

\* hasattr(agent_response, 'metrics')
HasMetrics(agent_response) == agent_response.metrics # "absent"

extract_strands_trace_data(agent_response, agent, snaps, tots) ==
    IF ~HasMetrics(agent_response)
    THEN [value |-> NoTrace, snapshots |-> snaps, totals |-> tots,
          prev_snapshot |-> NoSnapshot, computed |-> FALSE, data |-> NoTrace]
    ELSE IF agent_response.metrics = "raises"
    THEN [value |-> Except([raised |-> TRUE, value |-> NoTrace]), snapshots |-> snaps,
          totals |-> tots, prev_snapshot |-> NoSnapshot, computed |-> FALSE,
          data |-> NoTrace]
    ELSE LET pm == calculate_per_message_metrics(agent_response.summary, agent, snaps, tots)
             ui == IF pm.raised THEN [raised |-> TRUE, value |-> NoTrace]
                   ELSE convert_to_ui_format(pm.data, agent)
         IN  [value |-> Except(ui), snapshots |-> pm.snapshots, totals |-> pm.totals,
              prev_snapshot |-> pm.prev_snapshot, computed |-> TRUE, data |-> pm.data]

\* ------------------------------------------ extract_direct_metrics_from_response
DirectMetrics(summary) ==
    [token_delta |-> [k \in UsageKeys |-> Get(summary.accumulated_usage, k, 0)],
     new_cycles |-> summary.total_cycles,
     latency_ms |-> Get(summary.accumulated_metrics, "latencyMs", 0),
     new_traces |-> summary.traces,
     message_contents |-> MessageContents(summary.traces),
     tool_calls |-> ToolCalls(summary.traces, TRUE)]

extract_direct_metrics_from_response(agent_response) ==
    IF ~HasMetrics(agent_response) THEN NoTrace
    ELSE IF agent_response.metrics = "raises"
    THEN Except([raised |-> TRUE, value |-> NoTrace])
    ELSE IF WalkRaises(agent_response.summary.traces)
    THEN Except([raised |-> TRUE, value |-> NoTrace])
    ELSE Except(convert_to_ui_format(DirectMetrics(agent_response.summary), None))

\* --------------------------------------------------------- reset_metrics_state
\* A reset that leaves the snapshot store alone.
reset_metrics_state_keep(snaps) == snaps

\* dict.clear() removes every key of both dictionaries.
reset_metrics_state_snapshots(snaps) == EmptyDict

\* popitem() in place of clear(): one key goes, the last one inserted.
reset_metrics_state_popitem(tots) ==
    IF DOMAIN tots = {} THEN tots
    ELSE [k \in (DOMAIN tots) \ {TotalKeys[Cardinality(DOMAIN tots)]} |-> tots[k]]

reset_metrics_state_totals(tots) == EmptyDict

\* ------------------------------------------------------------------ history
NoResponse == [metrics |-> "none"]

\* The five deltas a returned record carries, zero when nothing was returned.
DeltaOf(r) ==
    IF r.kind = "record"
    THEN [inputTokens |-> r.token_delta.inputTokens,
          outputTokens |-> r.token_delta.outputTokens,
          totalTokens |-> r.token_delta.totalTokens,
          cycles |-> r.new_cycles, latencyMs |-> r.latency_ms]
    ELSE ZeroTotals

\* The five deltas computed by calculate_per_message_metrics.
ComputedOf(data) ==
    [inputTokens |-> Get(data.token_delta, "inputTokens", 0),
     outputTokens |-> Get(data.token_delta, "outputTokens", 0),
     totalTokens |-> Get(data.token_delta, "totalTokens", 0),
     cycles |-> data.new_cycles, latencyMs |-> data.latency_ms]

AddTotals(a, b) == [k \in DOMAIN a |-> a[k] + b[k]]

\* The cycles of a returned record, none when no trace was returned.
CyclesOf(r) == IF r.kind = "record" THEN r.cycles ELSE <<>>

\* The five cumulative values of a summary.
CumulativeOf(summary) == SnapshotOf(summary)

\* ------------------------------------------------------------------ threads
Threads == {"t1", "t2"}

\* The locals of one call of calculate_per_message_metrics running in a thread:
\* where it stands, its arguments, prev_snapshot, the index of the total being
\* added to, the value loaded for it, and what the call returned.
IdleThread ==
    [pc |-> "idle", agent |-> None, agent_response |-> NoResponse,
     prev_snapshot |-> NoSnapshot, start_snapshot |-> NoSnapshot, k |-> 0,
     loaded |-> 0, result |-> NoTrace]

\* ------------------------------------------------------------------ actions
InitEngine ==
    /\ snapshots = EmptyDict
    /\ totals = ZeroTotals
    /\ call = [op |-> "init", agent |-> None, agent_response |-> NoResponse,
               after_reset |-> FALSE]
    /\ prev_snapshot = NoSnapshot
    /\ result = NoTrace
    /\ calls = 0
    /\ returnedSum = ZeroTotals
    /\ returnedCycles = <<>>
    /\ computedSum = ZeroTotals
    /\ everReset = FALSE
    /\ forgotten = {}
    /\ resetRun = 0
    /\ instance = [a \in Agents |-> 0]
    /\ observedInstances = {}
    /\ threads = [t \in Threads |-> IdleThread]

Init == InitEngine /\ agent_model = LoadedModel

\* extract_strands_trace_data(agent_response, agent=agent); agent may be None.
ExtractStrands(agent, agent_response) ==
    \E out \in {extract_strands_trace_data(agent_response, agent, snapshots, totals)} :
        /\ snapshots' = out.snapshots
        /\ totals' = out.totals
        /\ call' = [op |-> "strands", agent |-> agent, agent_response |-> agent_response,
                    after_reset |-> agent \in forgotten]
        /\ prev_snapshot' = out.prev_snapshot
        /\ result' = out.value
        /\ calls' = calls + 1
        /\ returnedSum' = AddTotals(returnedSum, DeltaOf(out.value))
        /\ returnedCycles' = returnedCycles \o CyclesOf(out.value)
        /\ computedSum' =
               IF out.computed THEN AddTotals(computedSum, ComputedOf(out.data))
               ELSE computedSum
        /\ forgotten' = IF out.computed THEN forgotten \ {agent} ELSE forgotten
        /\ resetRun' = 0
        /\ observedInstances' =
               IF out.computed /\ agent \in Agents
               THEN observedInstances \cup {<<agent, instance[agent]>>}
               ELSE observedInstances
        /\ UNCHANGED <<everReset, instance, threads, agent_model>>

\* extract_direct_metrics_from_response(agent_response)
ExtractDirect(agent_response) ==
    \E value \in {extract_direct_metrics_from_response(agent_response)} :
        /\ call' = [op |-> "direct", agent |-> None, agent_response |-> agent_response,
                    after_reset |-> FALSE]
        /\ prev_snapshot' = NoSnapshot
        /\ result' = value
        /\ calls' = calls + 1
        /\ returnedSum' = AddTotals(returnedSum, DeltaOf(value))
        /\ returnedCycles' = returnedCycles \o CyclesOf(value)
        /\ resetRun' = 0
        /\ UNCHANGED <<snapshots, totals, computedSum, everReset, forgotten, instance,
                       observedInstances, threads, agent_model>>

\* reset_metrics_state()
Reset ==
    /\ snapshots' = reset_metrics_state_snapshots(snapshots)
    /\ totals' = reset_metrics_state_totals(totals)
    /\ call' = [op |-> "reset", agent |-> None, agent_response |-> NoResponse,
                after_reset |-> FALSE]
    /\ prev_snapshot' = NoSnapshot
    /\ result' = NoTrace
    /\ calls' = calls + 1
    /\ returnedSum' = ZeroTotals
    /\ returnedCycles' = <<>>
    /\ computedSum' = ZeroTotals
    /\ everReset' = TRUE
    /\ forgotten' = forgotten \cup DOMAIN snapshots
    /\ resetRun' = resetRun + 1
    /\ UNCHANGED <<instance, observedInstances, threads, agent_model>>

\* A call of extract_strands_trace_data with or without an agent.
StrandsCall ==
    /\ calls < MaxCalls
    /\ \E agent \in Agents \cup {None}, agent_response \in TurnResults :
           ExtractStrands(agent, agent_response)

DirectCall ==
    /\ calls < MaxCalls
    /\ \E agent_response \in TurnResults : ExtractDirect(agent_response)

ResetCall == calls < MaxCalls /\ Reset

Next == StrandsCall \/ DirectCall \/ ResetCall

Spec == Init /\ [][Next]_vars

\* The same calls with every turn result, the faulty ones included.
FaultyStrandsCall ==
    /\ calls < MaxFaultCalls
    /\ \E agent \in Agents \cup {None}, agent_response \in AllTurnResults :
           ExtractStrands(agent, agent_response)

FaultyDirectCall ==
    /\ calls < MaxFaultCalls
    /\ \E agent_response \in AllTurnResults : ExtractDirect(agent_response)

FaultyResetCall == calls < MaxFaultCalls /\ Reset

NextFaults == FaultyStrandsCall \/ FaultyDirectCall \/ FaultyResetCall

SpecFaults == Init /\ [][NextFaults]_vars

\* One call on a fresh engine with a turn result of one cycle whose node has any
\* sequence of children: the content extraction of both entry points.
ContentStrandsCall ==
    /\ calls = 0
    /\ \E agent \in Agents \cup {None}, agent_response \in ContentTurnResults :
           ExtractStrands(agent, agent_response)

ContentDirectCall ==
    /\ calls = 0
    /\ \E agent_response \in ContentTurnResults : ExtractDirect(agent_response)

NextContent == ContentStrandsCall \/ ContentDirectCall

SpecContent == Init /\ [][NextContent]_vars

\* ---- display model name
\* One call on a fresh engine, the agents having any model object or none.
InitModelName == InitEngine /\ agent_model \in ModelObjects \cup {NoModel}

ModelStrandsCall ==
    /\ calls = 0
    /\ \E agent \in Agents \cup {None}, agent_response \in TurnResults :
           ExtractStrands(agent, agent_response)

ModelDirectCall ==
    /\ calls = 0
    /\ \E agent_response \in TurnResults : ExtractDirect(agent_response)

NextModelName == ModelStrandsCall \/ ModelDirectCall

SpecModelName == InitModelName /\ [][NextModelName]_vars

\* ---- one identity observed again and again by a runtime that only counts up
MaxSeriesCalls == 6

SeriesAgent == "a1"

\* The cumulative counters of summary are not below those of the snapshot.
NonDecreasing(prev, summary) ==
    IF prev = NoSnapshot THEN TRUE
    ELSE \A k \in DOMAIN prev : SnapshotOf(summary)[k] >= prev[k]

SeriesObserve ==
    /\ calls < MaxSeriesCalls
    /\ \E agent_response \in TurnResults :
           /\ NonDecreasing(LookupSnapshot(snapshots, SeriesAgent),
                            agent_response.summary)
           /\ ExtractStrands(SeriesAgent, agent_response)

SeriesReset == calls < MaxSeriesCalls /\ Reset

NextSeries == SeriesObserve \/ SeriesReset

SpecSeries == Init /\ [][NextSeries]_vars

\* ---- agent lifetime
\* Most agent objects created at one id() value after the first.
MaxInstances == 1
\* Calls made in one behaviour of the specification with agent replacement.
MaxLifetimeCalls == 2

\* The agent object whose id() is a is destroyed and the next agent object is
\* allocated at the same address, so id() gives a again (two objects with
\* non-overlapping lifetimes may have the same id()).  _agent_snapshots holds
\* the int key, not the object: nothing in it changes.
ReplaceAgent(a) ==
    /\ instance[a] < MaxInstances
    /\ instance' = [instance EXCEPT ![a] = @ + 1]
    /\ UNCHANGED <<snapshots, totals, call, prev_snapshot, result, calls, returnedSum,
                   returnedCycles, computedSum, everReset, forgotten, resetRun, observedInstances,
                   threads, agent_model>>

LifetimeReplace == \E a \in Agents : ReplaceAgent(a)

LifetimeStrandsCall ==
    /\ calls < MaxLifetimeCalls
    /\ \E agent \in Agents \cup {None}, agent_response \in TurnResults :
           ExtractStrands(agent, agent_response)

NextLifetime == LifetimeStrandsCall \/ LifetimeReplace

SpecLifetime == Init /\ [][NextLifetime]_vars

\* ---- concurrent observations
\* The five amounts calculate_per_message_metrics adds to _session_totals.
ThreadAmounts(th) ==
    LET summary == th.agent_response.summary
        delta_usage == DeltaUsage(summary.accumulated_usage, th.prev_snapshot)
    IN  <<Get(delta_usage, "inputTokens", 0), Get(delta_usage, "outputTokens", 0),
          Get(delta_usage, "totalTokens", 0),
          DeltaCycles(summary.total_cycles, th.prev_snapshot),
          DeltaLatency(Get(summary.accumulated_metrics, "latencyMs", 0),
                       th.prev_snapshot)>>

\* per_message_data as the thread builds it from its locals.
ThreadData(th) ==
    LET summary == th.agent_response.summary
        amounts == ThreadAmounts(th)
        new_traces == NewTraces(summary.traces, PrevCyclesIndex(th.prev_snapshot),
                                summary.total_cycles)
    IN  [token_delta |-> DeltaUsage(summary.accumulated_usage, th.prev_snapshot),
         new_cycles |-> amounts[4], latency_ms |-> amounts[5],
         new_traces |-> new_traces,
         message_contents |-> MessageContents(new_traces),
         tool_calls |-> ToolCalls(new_traces, FALSE)]

\* The identity each thread observes: two different ones.
ThreadAgent == [t1 |-> "a1", t2 |-> "a2"]

\* The engine after each identity was observed once with the turn result prior
\* (no identity observed when prior is NoResponse), and two threads about to
\* observe two different identities.
InitConcurrent ==
    \E prior \in TurnResults \cup {NoResponse} :
    \E assigned \in {ThreadAgent} :
    \E given \in [Threads -> TurnResults] :
        /\ snapshots = IF prior = NoResponse THEN EmptyDict
                       ELSE [a \in Agents |-> SnapshotOf(prior.summary)]
        /\ totals = IF prior = NoResponse THEN ZeroTotals
                    ELSE AddTotals(CumulativeOf(prior.summary), CumulativeOf(prior.summary))
        /\ call = [op |-> "init", agent |-> None, agent_response |-> NoResponse,
                   after_reset |-> FALSE]
        /\ prev_snapshot = NoSnapshot
        /\ result = NoTrace
        /\ calls = 0
        /\ returnedSum = totals
        /\ returnedCycles = <<>>
        /\ computedSum = totals
        /\ everReset = FALSE
        /\ forgotten = {}
        /\ resetRun = 0
        /\ instance = [a \in Agents |-> 0]
        /\ agent_model = LoadedModel
        /\ observedInstances = IF prior = NoResponse THEN {}
                               ELSE {<<a, 0>> : a \in Agents}
        /\ threads = [t \in Threads |->
                         [IdleThread EXCEPT
                              !.pc = "lookup", !.agent = assigned[t],
                              !.agent_response = given[t],
                              !.start_snapshot = LookupSnapshot(snapshots, assigned[t])]]

ThreadUnchanged ==
    UNCHANGED <<call, prev_snapshot, result, calls, returnedSum, returnedCycles,
                computedSum, everReset,
                forgotten, resetRun, instance, observedInstances, agent_model>>

\* Lines 68-70: prev_snapshot = _agent_snapshots.get(key, None)
ThreadLookup(t) ==
    /\ threads[t].pc = "lookup"
    /\ threads' = [threads EXCEPT
                      ![t].prev_snapshot = LookupSnapshot(snapshots, threads[t].agent),
                      ![t].pc = "save"]
    /\ UNCHANGED <<snapshots, totals>>
    /\ ThreadUnchanged

\* Lines 88-95: _agent_snapshots[key] = {...}
ThreadSave(t) ==
    /\ threads[t].pc = "save"
    /\ snapshots' = SaveSnapshot(snapshots, threads[t].agent,
                                 threads[t].agent_response.summary)
    /\ threads' = [threads EXCEPT ![t].pc = "load", ![t].k = 1]
    /\ UNCHANGED totals
    /\ ThreadUnchanged

\* Lines 98-102, first half of one "_session_totals[key] += amount": the
\* current value is read; a missing key raises KeyError and the call returns None.
ThreadLoad(t) ==
    /\ threads[t].pc = "load"
    /\ threads' =
           IF TotalKeys[threads[t].k] \in DOMAIN totals
           THEN [threads EXCEPT ![t].loaded = totals[TotalKeys[threads[t].k]],
                                ![t].pc = "store"]
           ELSE [threads EXCEPT ![t].result = Except([raised |-> TRUE, value |-> NoTrace]),
                                ![t].pc = "done"]
    /\ UNCHANGED <<snapshots, totals>>
    /\ ThreadUnchanged

\* Second half: the sum of the value read and the amount is written back.
ThreadStore(t) ==
    /\ threads[t].pc = "store"
    /\ totals' = Put(totals, TotalKeys[threads[t].k],
                     threads[t].loaded + ThreadAmounts(threads[t])[threads[t].k])
    /\ threads' =
           IF threads[t].k < Len(TotalKeys)
           THEN [threads EXCEPT ![t].k = @ + 1, ![t].pc = "load"]
           ELSE [threads EXCEPT ![t].pc = "convert"]
    /\ UNCHANGED snapshots
    /\ ThreadUnchanged

\* Lines 104-168 and 46: the traces are sliced and walked, the view is built
\* and returned (None when something raised).
ThreadReturn(t) ==
    /\ threads[t].pc = "convert"
    /\ threads' =
           [threads EXCEPT
                ![t].result =
                    Except(IF WalkRaises(ThreadData(threads[t]).new_traces)
                           THEN [raised |-> TRUE, value |-> NoTrace]
                           ELSE convert_to_ui_format(ThreadData(threads[t]),
                                                     threads[t].agent)),
                ![t].pc = "done"]
    /\ UNCHANGED <<snapshots, totals>>
    /\ ThreadUnchanged

Lookup == \E t \in Threads : ThreadLookup(t)

Save == \E t \in Threads : ThreadSave(t)

Load == \E t \in Threads : ThreadLoad(t)

Store == \E t \in Threads : ThreadStore(t)

Return == \E t \in Threads : ThreadReturn(t)

NextConcurrent == Lookup \/ Save \/ Load \/ Store \/ Return

SpecConcurrent == InitConcurrent /\ [][NextConcurrent]_vars

\* ------------------------------------------------------------------ claims
DeltaKeys == DOMAIN ZeroTotals

\* The last call observed an identity through extract_strands_trace_data.
IsObservation == call.op = "strands" /\ call.agent \in Agents

\* The last call was made without an identity, through either entry point.
IsEphemeral == call.op = "direct" \/ (call.op = "strands" /\ call.agent = None)

\* The five cumulative values of the last call's summary.
Cumulative == CumulativeOf(call.agent_response.summary)

\* C1: every delta field (input, output and total tokens, cycle count, latency)
\* of every record returned for an observation of an identity is >= 0, also
\* when cumulative counters decrease between observations.
C1_NonNegativeDeltas ==
    (IsObservation /\ result.kind = "record") =>
        \A k \in DeltaKeys : DeltaOf(result)[k] >= 0

\* A tracked identity is observed with smaller token and cycle counters than its
\* snapshot, and the record returned carries zero deltas there.
C1_Witness ==
    /\ IsObservation
    /\ result.kind = "record"
    /\ prev_snapshot # NoSnapshot
    /\ Cumulative.inputTokens < prev_snapshot.inputTokens
    /\ Cumulative.cycles < prev_snapshot.cycles
    /\ DeltaOf(result).inputTokens = 0
    /\ DeltaOf(result).cycles = 0

\* C2: observing an identity that has no stored snapshot returns a record whose
\* delta equals the cumulative values of that observation, field by field.
C2_FirstObservationIsCumulative ==
    (IsObservation /\ prev_snapshot = NoSnapshot) =>
        (result.kind = "record" /\ DeltaOf(result) = Cumulative)

\* C3: observing an identity that has a stored snapshot returns, for each of the
\* five fields, max(0, current - previous), previous being that snapshot.
C3_TrackedDeltaIsClampedDifference ==
    (IsObservation /\ prev_snapshot # NoSnapshot) =>
        /\ result.kind = "record"
        /\ \A k \in DeltaKeys :
               DeltaOf(result)[k] =
                   (IF Cumulative[k] > prev_snapshot[k]
                    THEN Cumulative[k] - prev_snapshot[k] ELSE 0)

\* C4: an observation made without an identity returns a delta equal to the
\* full cumulative input, whatever is stored and whatever preceded it.
C4_EphemeralPassThrough ==
    IsEphemeral => (result.kind = "record" /\ DeltaOf(result) = Cumulative)

\* C5: a call made without an identity leaves the snapshot store as it was, so
\* the snapshot every identity is compared with next is the same as before.
C5_EphemeralLeavesStore ==
    [][(calls' = calls + 1
        /\ (call'.op = "direct" \/ (call'.op = "strands" /\ call'.agent = None)))
       => /\ snapshots' = snapshots
          /\ \A a \in Agents :
                 LookupSnapshot(snapshots', a) = LookupSnapshot(snapshots, a)]_vars

\* An ephemeral call returned a record while an identity was tracked.
C5_Witness ==
    /\ IsEphemeral
    /\ result.kind = "record"
    /\ Cumulative.totalTokens > 0
    /\ DOMAIN snapshots # {}

\* C6: with no reset so far, each session total equals the sum of that delta
\* field over all records returned, by either entry point.
C6_TotalsEqualReturnedDeltas == ~everReset => totals = returnedSum

\* C7: after a reset, observing an identity that was tracked before the reset
\* returns a record whose delta equals that observation's cumulative values.
C7_FirstObservationAfterReset ==
    (IsObservation /\ call.after_reset) =>
        (result.kind = "record" /\ DeltaOf(result) = Cumulative)

\* C8: a reset that directly follows a reset changes neither the snapshot store
\* nor the session totals.
C8_ResetIdempotent ==
    [][(call.op = "reset" /\ call'.op = "reset" /\ calls' = calls + 1)
       => (snapshots' = snapshots /\ totals' = totals)]_vars

\* Two resets in a row, the first of which removed a snapshot.
C8_Witness == resetRun >= 2 /\ forgotten # {}

\* C9: in every state each session total equals the sum of the deltas computed
\* since the last reset, which is 0 right after a reset.
C9_TotalsEqualDeltasSinceReset == totals = computedSum

\* C10: a call of either entry point returns a record or None; nothing raised
\* while reading the summary, walking the traces, accumulating the totals or
\* building the view reaches the caller.
C10_NothingPropagates ==
    call.op \in {"strands", "direct"} => result.kind \in {"record", "None"}

\* An instrumented turn failed inside the engine (a trace node that cannot be
\* walked) and the call returned None.
C10_Witness ==
    /\ call.op = "strands"
    /\ call.agent_response.metrics = "present"
    /\ WalkRaises(call.agent_response.summary.traces)
    /\ result = NoTrace

\* C11: a call of either entry point with a turn result that has no metrics
\* attribute returns None and changes neither the snapshot store nor the
\* session totals.
C11_NoMetricsNoChange ==
    [][(calls' = calls + 1 /\ call'.op \in {"strands", "direct"}
        /\ call'.agent_response.metrics = "absent")
       => (result' = NoTrace /\ snapshots' = snapshots /\ totals' = totals)]_vars

\* An identity that is not tracked was observed with an uninstrumented turn
\* result while another identity was tracked and the totals were not zero.
C11_Witness ==
    /\ IsObservation
    /\ call.agent_response.metrics = "absent"
    /\ result = NoTrace
    /\ DOMAIN snapshots # {}
    /\ call.agent \notin DOMAIN snapshots
    /\ totals = [ZeroTotals EXCEPT !.inputTokens = 2, !.outputTokens = 1,
                                   !.totalTokens = 3, !.cycles = 1, !.latencyMs = 2]

\* The identities that have a stored snapshot.
Tracked(snaps) == DOMAIN snaps

\* C12: an identity is Tracked after every observation of itself; a call other
\* than a reset keeps every Tracked identity Tracked and makes no identity
\* Tracked but the one it observes; a reset leaves every identity Unseen.
C12_UnseenTracked ==
    [][(calls' = calls + 1) =>
          /\ (call'.op = "reset") => (Tracked(snapshots') = {})
          /\ (call'.op # "reset") =>
                 /\ Tracked(snapshots) \subseteq Tracked(snapshots')
                 /\ Tracked(snapshots') \subseteq
                        Tracked(snapshots) \cup ({call'.agent} \cap Agents)
          /\ (call'.op = "strands" /\ call'.agent \in Agents) =>
                 (call'.agent \in Tracked(snapshots'))]_vars

\* A reset has just returned both identities, tracked before it, to Unseen.
C12_Witness ==
    /\ call.op = "reset"
    /\ forgotten = Agents
    /\ Tracked(snapshots) = {}

\* C13: in every record returned by either entry point the number of cycles
\* equals the returned cycle delta (new_cycles) and never exceeds it, also when
\* the trace list is shorter or longer than the cumulative cycle count.  The
\* formula is the upper bound that the equality contains.
C13_CyclesWithinCycleDelta ==
    (call.op \in {"strands", "direct"} /\ result.kind = "record") =>
        Len(result.cycles) <= result.new_cycles

\* The last call was made with a turn result of one cycle node.
OneNode ==
    /\ call.op \in {"strands", "direct"}
    /\ Len(call.agent_response.summary.traces) = 1

\* The children of the one cycle node of the last call's turn result.
LastChildren == call.agent_response.summary.traces[1].children

\* The toolUse blocks of the assistant steps among these children, by position.
ToolUsesOf(children) ==
    {p \in (1..Len(children)) \X (1..2) :
        /\ children[p[1]].name = "stream_messages"
        /\ children[p[1]].role = "assistant"
        /\ p[2] <= Len(children[p[1]].content)
        /\ children[p[1]].content[p[2]].key = "toolUse"}

\* The siblings with a tool-invocation name and metadata tool-use id t.
SiblingsFor(children, t) ==
    {s \in 1..Len(children) :
        children[s].name \in ToolNames /\ children[s].toolUseId = t}

\* The texts inside the toolResult blocks a child carries.
CarriedTexts(child) ==
    UNION {{child.content[i].content[j].text :
               j \in {j \in 1..Len(child.content[i].content) :
                          child.content[i].content[j].key = "text"}} :
           i \in {i \in 1..Len(child.content) : child.content[i].key = "toolResult"}}

\* The results of the tool calls returned for tool-use id t.
ResultsFor(r, t) ==
    {r.tool_calls[k].result :
        k \in {k \in 1..Len(r.tool_calls) : r.tool_calls[k].tool_id = t}}

\* C14: when the one sibling with a tool-invocation name and metadata tool-use
\* id t carries the toolResult text x, every tool call returned for a toolUse
\* block with id t has result x, wherever that sibling stands among the children.
C14_ToolResultJoinedById ==
    (OneNode /\ result.kind = "record") =>
        \A p \in ToolUsesOf(LastChildren) :
            LET t == LastChildren[p[1]].content[p[2]].toolUseId
            IN  \A s \in SiblingsFor(LastChildren, t) :
                    (SiblingsFor(LastChildren, t) = {s}
                     /\ Cardinality(CarriedTexts(LastChildren[s])) = 1)
                    => ResultsFor(result, t) = CarriedTexts(LastChildren[s])

\* The tool invocation child stands before the assistant step that requested
\* it, and the tool call returned has its text.
C14_Witness ==
    /\ call.op = "strands"
    /\ LastChildren = <<ToolChild("t1", "r1"), AssistantStep>>
    /\ result.kind = "record"
    /\ result.tool_calls =
           <<[tool_id |-> "t1", tool_name |-> "calculator", result |-> "r1"]>>

\* C15: every toolUse block yields exactly one tool call; when no sibling has
\* the metadata tool-use id of the block its result is the empty string, and
\* the call returns a record, not None.
C15_UnmatchedToolUse ==
    OneNode =>
        /\ result.kind = "record"
        /\ Len(result.tool_calls) = Cardinality(ToolUsesOf(LastChildren))
        /\ \A p \in ToolUsesOf(LastChildren) :
               LET t == LastChildren[p[1]].content[p[2]].toolUseId
               IN  (\A s \in 1..Len(LastChildren) : LastChildren[s].toolUseId # t)
                   => ResultsFor(result, t) = {""}

\* The only tool invocation child belongs to another tool-use id; one tool call
\* with an empty result was returned.
C15_Witness ==
    /\ call.op \in {"strands", "direct"}
    /\ LastChildren = <<AssistantStep, ToolChild("t2", "r3")>>
    /\ result.kind = "record"
    /\ result.tool_calls =
           <<[tool_id |-> "t1", tool_name |-> "calculator", result |-> ""]>>

\* The ids of the traces all_traces[previous:current] when previous is less
\* than the length of the list, none otherwise.
SlicedIds(all_traces, previous, current) ==
    LET top == IF current < Len(all_traces) THEN current ELSE Len(all_traces)
        n == IF previous < Len(all_traces) /\ previous < top THEN top - previous ELSE 0
    IN  [i \in 1..n |-> all_traces[previous + i].id]

\* C16: the cycles of every record returned by extract_strands_trace_data are
\* the traces [previous:current] of the trace list when previous is less than
\* its length and none otherwise, for every previous index, current index and
\* list length; previous is the cycle count of the snapshot found, 0 without one.
C16_SlicerReturnsWindow ==
    (call.op = "strands" /\ result.kind = "record") =>
        result.cycles =
            SlicedIds(call.agent_response.summary.traces,
                      IF prev_snapshot = NoSnapshot THEN 0 ELSE prev_snapshot.cycles,
                      call.agent_response.summary.total_cycles)

\* The previous index is past the current one and not less than the length of
\* a trace list that is longer than the current cycle count: nothing is sliced.
C16_Witness ==
    /\ IsObservation
    /\ result.kind = "record"
    /\ prev_snapshot # NoSnapshot
    /\ prev_snapshot.cycles > call.agent_response.summary.total_cycles
    /\ prev_snapshot.cycles >= Len(call.agent_response.summary.traces)
    /\ Len(call.agent_response.summary.traces) >
           call.agent_response.summary.total_cycles
    /\ result.cycles = <<>>

\* C19: after every call of extract_strands_trace_data with an identity and a
\* turn result whose summary was read, the identity's snapshot holds the five
\* cumulative values of that summary (0 for a missing one), whether the call
\* returned a record or None.
C19_SnapshotIsLastCumulative ==
    (IsObservation /\ call.agent_response.metrics = "present") =>
        /\ call.agent \in DOMAIN snapshots
        /\ LET summary == call.agent_response.summary
               usage == summary.accumulated_usage
           IN  snapshots[call.agent] =
                   [inputTokens |->
                        IF "inputTokens" \in DOMAIN usage THEN usage.inputTokens ELSE 0,
                    outputTokens |->
                        IF "outputTokens" \in DOMAIN usage THEN usage.outputTokens ELSE 0,
                    totalTokens |->
                        IF "totalTokens" \in DOMAIN usage THEN usage.totalTokens ELSE 0,
                    cycles |-> summary.total_cycles,
                    latencyMs |->
                        IF "latencyMs" \in DOMAIN summary.accumulated_metrics
                        THEN summary.accumulated_metrics.latencyMs ELSE 0]

\* A tracked identity was observed with other cumulative values, the call
\* returned None, and the snapshot holds the new values.
C19_Witness ==
    /\ IsObservation
    /\ call.agent_response.metrics = "present"
    /\ result = NoTrace
    /\ prev_snapshot # NoSnapshot
    /\ prev_snapshot # Cumulative
    /\ snapshots[call.agent] = Cumulative

\* C20: when several siblings of a cycle node have a tool-invocation name and
\* the tool-use id of a toolUse block, the tool call returned by either entry
\* point has the result of the first of them in child order: its toolResult
\* text, or the empty string when it carries none.
C20_FirstSiblingWins ==
    (OneNode /\ result.kind = "record") =>
        \A p \in ToolUsesOf(LastChildren) :
            LET t == LastChildren[p[1]].content[p[2]].toolUseId
                siblings == SiblingsFor(LastChildren, t)
                first == CHOOSE s \in siblings : \A o \in siblings : s <= o
            IN  (Cardinality(siblings) >= 2
                 /\ Cardinality(CarriedTexts(LastChildren[first])) <= 1) =>
                    ResultsFor(result, t) =
                        (IF CarriedTexts(LastChildren[first]) = {} THEN {""}
                         ELSE CarriedTexts(LastChildren[first]))

\* C17: an agent object that is observed for the first time, also one created
\* at the id() value of an agent object destroyed before it, finds no snapshot
\* and gets a delta equal to its own cumulative values.
C17_NewInstanceIsUnseen ==
    [][(calls' = calls + 1 /\ call'.op = "strands" /\ call'.agent \in Agents
        /\ <<call'.agent, instance[call'.agent]>> \notin observedInstances)
       => /\ prev_snapshot' = NoSnapshot
          /\ result'.kind = "record"
          /\ DeltaOf(result') = CumulativeOf(call'.agent_response.summary)]_vars

\* The delta each field has when th runs alone on the store it started from.
SerialDelta(th) ==
    LET current == CumulativeOf(th.agent_response.summary)
    IN  [k \in DeltaKeys |->
            IF th.start_snapshot = NoSnapshot THEN current[k]
            ELSE IF current[k] > th.start_snapshot[k]
                 THEN current[k] - th.start_snapshot[k] ELSE 0]

\* C18: when two threads observe two different identities with their steps
\* interleaved in any order, each observation reads the snapshot its identity
\* had before both, returns the delta it returns when run alone, and leaves its
\* identity's snapshot at its own cumulative values: as in a serial execution.
C18_DifferentIdentitiesSerial ==
    \A t \in Threads :
        /\ threads[t].pc \notin {"idle", "lookup"} =>
               threads[t].prev_snapshot = threads[t].start_snapshot
        /\ threads[t].pc \in {"lookup", "save"} =>
               LookupSnapshot(snapshots, threads[t].agent) = threads[t].start_snapshot
        /\ threads[t].pc \in {"load", "store", "convert", "done"} =>
               snapshots[threads[t].agent] =
                   CumulativeOf(threads[t].agent_response.summary)
        /\ threads[t].pc = "done" =>
               /\ threads[t].result.kind = "record"
               /\ DeltaOf(threads[t].result) = SerialDelta(threads[t])

\* Both threads have returned; both identities were tracked before, and the
\* two observations returned different deltas.
C18_Witness ==
    /\ \A t \in Threads : threads[t].pc = "done"
    /\ \A t \in Threads : threads[t].start_snapshot # NoSnapshot
    /\ DeltaOf(threads["t1"].result).totalTokens > 0
    /\ DeltaOf(threads["t2"].result).totalTokens = 0
    /\ DeltaOf(threads["t2"].result).cycles > 0

\* The first text inside the first toolResult block of a child that has one.
FirstResultText(child) ==
    LET blocks == {i \in 1..Len(child.content) :
                      /\ child.content[i].key = "toolResult"
                      /\ \E j \in 1..Len(child.content[i].content) :
                             child.content[i].content[j].key = "text"}
        i == CHOOSE i \in blocks : \A o \in blocks : i <= o
        texts == {j \in 1..Len(child.content[i].content) :
                     child.content[i].content[j].key = "text"}
        j == CHOOSE j \in texts : \A o \in texts : j <= o
    IN  child.content[i].content[j].text

\* C21: when the toolResult block of the one matching sibling holds several
\* text blocks, the result of the tool call returned is the first of them.
C21_FirstTextIsResult ==
    (OneNode /\ result.kind = "record") =>
        \A p \in ToolUsesOf(LastChildren) :
            LET t == LastChildren[p[1]].content[p[2]].toolUseId
            IN  \A s \in SiblingsFor(LastChildren, t) :
                    (SiblingsFor(LastChildren, t) = {s}
                     /\ Cardinality(CarriedTexts(LastChildren[s])) >= 2)
                    => ResultsFor(result, t) = {FirstResultText(LastChildren[s])}

\* The positions <<node, child, block>> of the text blocks of the children named
\* 'stream_messages' with role 'assistant' in a trace list.
AssistantTextPositions(traces) ==
    UNION {UNION {{<<n, c, b>> :
                      b \in {b \in 1..Len(traces[n].children[c].content) :
                                 traces[n].children[c].content[b].key = "text"}} :
                  c \in {c \in 1..Len(traces[n].children) :
                             /\ traces[n].children[c].name = "stream_messages"
                             /\ traces[n].children[c].role = "assistant"}} :
           n \in 1..Len(traces)}

\* Position p is not after position q: cycle order, then child, then block order.
NotAfter(p, q) ==
    \/ p[1] < q[1]
    \/ p[1] = q[1] /\ p[2] < q[2]
    \/ p[1] = q[1] /\ p[2] = q[2] /\ p[3] <= q[3]

\* C22: message_contents holds the text blocks of the children named
\* 'stream_messages' with role 'assistant' of the cycle nodes of the call, each
\* once, in cycle, child and block order, and no text of any other child.
C22_AssistantTextsInOrder ==
    (call.op \in {"strands", "direct"} /\ result.kind = "record") =>
        LET traces == call.agent_response.summary.traces
            positions == AssistantTextPositions(traces)
        IN  /\ Len(result.message_contents) = Cardinality(positions)
            /\ \A p \in positions :
                   result.message_contents[
                       Cardinality({q \in positions : NotAfter(q, p)})] =
                   traces[p[1]].children[p[2]].content[p[3]].text

\* One cycle whose children are a user message, another child with the
\* assistant role, and two assistant steps: the texts of the two steps were
\* collected in child order.
C22_Witness ==
    /\ call.op \in {"strands", "direct"}
    /\ result.kind = "record"
    /\ \E c \in 1..MaxChildren :
           /\ Len(call.agent_response.summary.traces[1].children) = c
           /\ \E i, j \in 1..c :
                  /\ i < j
                  /\ call.agent_response.summary.traces[1].children[i] = AnswerStep
                  /\ call.agent_response.summary.traces[1].children[j] = AssistantStep
           /\ \E i \in 1..c :
                  call.agent_response.summary.traces[1].children[i]
                      \in {UserStep, OtherAssistantChild}
    /\ result.message_contents = <<"answer", "calling">>

\* C23: every record has one llm_call per cycle node handed to the view builder
\* (the sliced traces; all traces in the direct entry point), and the prompt,
\* completion and total tokens of each are the input, output and total token
\* delta of the record integer-divided by max(1, new_cycles).
C23_OneLlmCallPerCycle ==
    (call.op \in {"strands", "direct"} /\ result.kind = "record") =>
        LET n == IF result.new_cycles > 1 THEN result.new_cycles ELSE 1
            nodes ==
                IF call.op = "direct" THEN Len(call.agent_response.summary.traces)
                ELSE Len(SlicedIds(call.agent_response.summary.traces,
                                   IF prev_snapshot = NoSnapshot THEN 0
                                   ELSE prev_snapshot.cycles,
                                   call.agent_response.summary.total_cycles))
        IN  /\ Len(result.llm_calls) = nodes
            /\ Len(result.cycles) = nodes
            /\ \A i \in 1..Len(result.llm_calls) :
                   /\ result.llm_calls[i].prompt_tokens =
                          result.token_delta.inputTokens \div n
                   /\ result.llm_calls[i].completion_tokens =
                          result.token_delta.outputTokens \div n
                   /\ result.llm_calls[i].total_tokens =
                          result.token_delta.totalTokens \div n

\* Two new cycles with one trace node: the one llm_call has half of each token
\* delta, rounded down.
C23_Witness ==
    /\ call.op \in {"strands", "direct"}
    /\ result.kind = "record"
    /\ result.new_cycles = 2
    /\ result.token_delta = [inputTokens |-> 2, outputTokens |-> 1, totalTokens |-> 3]
    /\ result.llm_calls =
           <<[prompt_tokens |-> 1, completion_tokens |-> 0, total_tokens |-> 1]>>

\* The model object the last call could probe: agent.model of the agent it was
\* given, none without an agent.
ProbedModel == IF call.agent \in Agents THEN agent_model ELSE NoModel

\* name is what the probing order gives for model object m: str() of model_id,
\* else of model, model_name, _model_id ("Unknown Model" when str() raises),
\* else the provider matched by the class name; unmatched when no provider
\* matches and missing when there is no model object.
ProbedNameIs(name, m, unmatched, missing) ==
    IF m.kind = "None" THEN name = missing
    ELSE IF m.fields # {} /\ m.str_raises THEN name = "Unknown Model"
    ELSE IF "model_id" \in m.fields THEN name = "value of model_id"
    ELSE IF "model" \in m.fields THEN name = "value of model"
    ELSE IF "model_name" \in m.fields THEN name = "value of model_name"
    ELSE IF "_model_id" \in m.fields THEN name = "value of _model_id"
    ELSE IF m.class_name \in {"BedrockModel", "CustomBedrockLLM"}
    THEN name = "BedrockModel"
    ELSE IF m.class_name = "AnthropicModel" THEN name = "AnthropicModel"
    ELSE IF m.class_name = "OpenAIModel" THEN name = "OpenAIModel"
    ELSE name = unmatched

\* C24: the display model name of a record is the canonical identifier field of
\* the bound model object, else the first of the three fallback fields, else
\* the provider its type name matches, and "Unknown Model" when no provider
\* matches or no model object is available.
C24_ModelNameOrUnknown ==
    (call.op \in {"strands", "direct"} /\ result.kind = "record") =>
        ProbedNameIs(result.model, ProbedModel, "Unknown Model", "Unknown Model")

\* C24, amended: the same probing order; when no provider matches the type
\* name the display name is the type name itself, when no model object is
\* available (no agent, or an agent without a model) it is the fixed default
\* us.anthropic.claude-3-7-sonnet-20250219-v1:0, and it is "Unknown Model"
\* only when reading a field raises.
C24_ModelNameChain ==
    (call.op \in {"strands", "direct"} /\ result.kind = "record") =>
        ProbedNameIs(result.model, ProbedModel, ProbedModel.class_name,
                     "us.anthropic.claude-3-7-sonnet-20250219-v1:0")

\* An agent whose model object has the two last fallback fields and the class
\* name of a known provider: the name is the value of the earlier field.
C24_Witness ==
    /\ call.op = "strands"
    /\ call.agent \in Agents
    /\ result.kind = "record"
    /\ agent_model = ModelObject({"model_name", "_model_id"}, "OpenAIModel", FALSE)
    /\ result.model = "value of model_name"

\* What two records, or two absent records, must have in common to be the same
\* observation: the three deltas, the cycles and the tool-call records.
SameObservation(direct, strands) ==
    /\ direct.kind = strands.kind
    /\ direct.kind = "record" =>
           /\ direct.token_delta = strands.token_delta
           /\ direct.new_cycles = strands.new_cycles
           /\ direct.latency_ms = strands.latency_ms
           /\ direct.cycles = strands.cycles
           /\ direct.tool_calls = strands.tool_calls

\* C25: a call of extract_direct_metrics_from_response returns what
\* extract_strands_trace_data without an agent returns for the same turn result
\* in the same engine state (same deltas, cycles and tool-call records), and
\* leaves the snapshot store and the session totals as that call leaves them.
C25_DirectIsStrandsWithoutAgent ==
    [][call'.op = "direct" =>
           \E strands \in {extract_strands_trace_data(call'.agent_response, None,
                                                       snapshots, totals)} :
               /\ SameObservation(result', strands.value)
               /\ snapshots' = strands.snapshots
               /\ totals' = strands.totals]_vars

\* C26: a call of either entry point that returns no trace leaves the session
\* totals as they were: the five totals are increased together by the deltas
\* of a returned record, or not at all.
C26_NoTraceNoAccumulation ==
    [][(call'.op \in {"strands", "direct"} /\ calls' = calls + 1
           /\ result'.kind = "None") => totals' = totals]_vars

\* C27: when two observations of different identities have run concurrently,
\* with their loads and stores of the session totals interleaved in any way,
\* the session totals are the totals before both plus the deltas both
\* returned: no increment is lost.
C27_NoLostIncrement ==
    (\A t \in Threads : threads[t].pc = "done") =>
        totals = AddTotals(AddTotals(returnedSum, DeltaOf(threads["t1"].result)),
                           DeltaOf(threads["t2"].result))

\* C28: after any number of observations of one identity by a runtime whose
\* cumulative counters never decrease, the field-wise sum of the deltas
\* returned since the series began equals the cumulative values of the last
\* observation.
C28_DeltasTelescope == IsObservation => returnedSum = Cumulative

\* C29: after any number of observations of one identity whose trace list is
\* append-only and as long as the cumulative cycle count, the cycles of the
\* returned records, one after the other, are the trace nodes of the last
\* observation's trace list, in order.
C29_CyclesPartitionTraces ==
    IsObservation =>
        returnedCycles = [i \in 1..Len(call.agent_response.summary.traces) |->
                              call.agent_response.summary.traces[i].id]

\* The sum of one token field over the llm calls of a record.
RECURSIVE SumField(_, _)
SumField(llm_calls, field) ==
    IF llm_calls = <<>> THEN 0
    ELSE llm_calls[1][field] + SumField(Tail(llm_calls), field)

\* C30: in every record returned by either entry point, the prompt, completion
\* and total tokens summed over the llm calls are each at most the record's
\* input, output and total token delta.
C30_LlmCallTokensWithinDelta ==
    (call.op \in {"strands", "direct"} /\ result.kind = "record") =>
        /\ SumField(result.llm_calls, "prompt_tokens") <= result.token_delta.inputTokens
        /\ SumField(result.llm_calls, "completion_tokens")
               <= result.token_delta.outputTokens
        /\ SumField(result.llm_calls, "total_tokens") <= result.token_delta.totalTokens

====
